---- MODULE Spec2Model ----
(***************************************************************************)
(* Model of the real-kb MCP server: the tool handlers of registerTools     *)
(* (the ask_product_question aggregator and the search tools), the         *)
(* YouTrack KB adapter (youtrack-kb.ts), the support-site adapter          *)
(* (support-site.ts) and the GitHub adapter (github-search.ts).            *)
(*                                                                         *)
(* A JavaScript string is modelled as the sequence of its lines (the       *)
(* string split on "\n"): the empty string is <<"">>, and the empty        *)
(* sequence <<>> stands for `undefined`.  An optional argument is <<>>     *)
(* when absent and <<v>> when supplied.                                    *)
(*                                                                         *)
(* One step of the model is one run of JavaScript between two suspension   *)
(* points: the synchronous part of a handler up to its first await, or the *)
(* continuation that runs when one upstream fetch() settles.  The upstream *)
(* answers are chosen when they arrive: a failure (non-2xx status or       *)
(* network error) or a well-typed JSON body; the one malformed body        *)
(* modelled is a KB search result with a null element, on which the code   *)
(* throws outside its try blocks.                                          *)
(***************************************************************************)
EXTENDS Integers, Sequences, FiniteSets, TLC

VARIABLES
    YOUTRACK_BASE_URL,          \* youtrack-kb.ts:1, read once at module load
    YOUTRACK_TOKEN,             \* youtrack-kb.ts:2
    YOUTRACK_DEFAULT_PROJECT,   \* youtrack-kb.ts:3
    GITHUB_TOKEN,   \* github-search.ts:1, read once at module load
    GITHUB_ORG,     \* github-search.ts:2
    tool,           \* the registered tool this invocation calls
    args,           \* the arguments of the invocation
    phase,          \* position of the tool handler
    kb,             \* the searchAndFetchArticles task
    sup,            \* the searchAndFetchSupportArticles task
    gh,             \* the searchAndFetchGitHubResults task
    promises,       \* the array handed to Promise.all, in dispatch order
    settled,        \* the tasks in the order they settled
    requests,       \* every upstream request issued, with its response
    content,        \* [kbContent, supportContent, githubContent]
    response,       \* the text the handler returns
    other           \* a second invocation, running at the same time

\* The module-level constants of the adapters.
config == <<YOUTRACK_BASE_URL, YOUTRACK_TOKEN, YOUTRACK_DEFAULT_PROJECT,
            GITHUB_TOKEN, GITHUB_ORG>>

vars == <<config, tool, args, phase, kb, sup, gh, promises, settled,
          requests, content, response, other>>

-----------------------------------------------------------------------------
(* Bounds of the model *)

MaxHits == 2          \* most hits the KB article search answers with
MaxSupportHits == 2   \* most hits the support search answers with
MaxGhItems == 1       \* most items a code-host search answers with

-----------------------------------------------------------------------------
(* JavaScript values *)

Undefined == <<>>
Absent == <<>>
Some(v) == <<v>>
EmptyString == <<"">>
Str(s) == <<s>>

\* a ?? b
NullishCoalesce(a, b) == IF a = Absent THEN b ELSE a[1]

\* !x for a string-or-undefined x
Falsy(x) == x = Undefined \/ x = EmptyString

\* a || b
OrElse(a, b) == IF Falsy(a) THEN b ELSE a

RECURSIVE JoinNL(_)
\* parts.join('\n'), parts a non-empty array of strings
JoinNL(parts) ==
    IF Len(parts) = 0 THEN EmptyString
    ELSE IF Len(parts) = 1 THEN parts[1]
    ELSE parts[1] \o JoinNL(Tail(parts))

Separator == <<"", "---", "">>

RECURSIVE JoinSeparator(_)
\* results.join('\n\n---\n\n')
JoinSeparator(blocks) ==
    IF Len(blocks) = 0 THEN EmptyString
    ELSE IF Len(blocks) = 1 THEN blocks[1]
    ELSE blocks[1] \o Separator \o JoinSeparator(Tail(blocks))

-----------------------------------------------------------------------------
(* Upstream requests and responses *)

\* A response that has not arrived yet.
Pending == [status |-> "pending", items |-> <<>>]

\* fetch() threw, or response.ok was false (a non-2xx status).
Failure == [status |-> "fail", items |-> <<>>]

\* One upstream request: the adapter that issued it, the endpoint, the page
\* size it carries (absent for a single-entity fetch), the entity it names.
Request(src, op, page, id) ==
    [src |-> src, op |-> op, page |-> page, id |-> id, resp |-> Pending]

Outstanding(reqs) == {i \in DOMAIN reqs : reqs[i].resp.status = "pending"}

OutstandingOf(reqs, src, op) ==
    {i \in Outstanding(reqs) : reqs[i].src = src /\ reqs[i].op = op}

Answer(reqs, i, resp) == [reqs EXCEPT ![i].resp = resp]

\* All sequences of distinct elements of S, of length at most n: a search
\* result lists an entity once.
SeqUpTo(S, n) ==
    {h \in UNION {[1..k -> S] : k \in 0..n} :
        \A i, j \in DOMAIN h : h[i] = h[j] => i = j}

\* The hits an upstream search may answer with for a page size: at most the
\* page size when it is positive, anything the bound allows otherwise.
PageCap(page, max) == IF page > 0 /\ page < max THEN page ELSE max

-----------------------------------------------------------------------------
(* YouTrack KB adapter: youtrack-kb.ts *)

\* A base URL is the sequence of its characters; Host, the scheme and host
\* name, is one token of it and holds no slash at its end.
Host == "https://youtrack.example.com"

\* Mutant of StripTrailingSlashes: the pattern /\/$/, one slash at most.
StripOneSlash(url) ==
    IF Len(url) > 0 /\ url[Len(url)] = "/"
    THEN SubSeq(url, 1, Len(url) - 1)
    ELSE url

RECURSIVE StripTrailingSlashes(_)
\* url.replace(/\/+$/, '')
StripTrailingSlashes(url) ==
    IF Len(url) > 0 /\ url[Len(url)] = "/"
    THEN StripTrailingSlashes(SubSeq(url, 1, Len(url) - 1))
    ELSE url

ApiSuffix == <<"/", "a", "p", "i">>

\* url.endsWith('/api')
EndsWithApi(url) ==
    /\ Len(url) >= Len(ApiSuffix)
    /\ SubSeq(url, Len(url) - Len(ApiSuffix) + 1, Len(url)) = ApiSuffix

\* getBaseUrl(): trailing slashes removed, '/api' appended when missing.
getBaseUrl(base) ==
    LET url == StripTrailingSlashes(base)
    IN  IF ~EndsWithApi(url) THEN url \o ApiSuffix ELSE url

KBArticleIds == {"RV2-A-1", "RV2-A-2"}

\* A null element of the JSON array the article search returns.
NullHit == "null"

\* The articles the knowledge base holds (YouTrackArticle, full field set).
KBStore(id) ==
    IF id = "RV2-A-1"
    THEN [idReadable |-> "RV2-A-1", summary |-> "Commission PRD",
          project |-> Some([name |-> "Real V2", shortName |-> "RV2"]),
          parentArticle |-> Absent,
          childArticles |-> <<[summary |-> "Splits RFC", idReadable |-> "RV2-A-2"]>>,
          content |-> <<"Agents earn commission.", "See splits.">>]
    ELSE [idReadable |-> "RV2-A-2", summary |-> "Splits RFC",
          project |-> Absent,
          parentArticle |-> Some([summary |-> "Commission PRD", idReadable |-> "RV2-A-1"]),
          childArticles |-> <<>>,
          content |-> Undefined]

KBSearchResponses(page) ==
    {Failure, [status |-> "nonarray", items |-> <<>>]}
    \cup {[status |-> "ok", items |-> h] :
            h \in SeqUpTo(KBArticleIds \cup {NullHit}, PageCap(page, MaxHits))}

KBFetchResponses(id) == {Failure, [status |-> "ok", items |-> <<id>>]}

\* searchKBArticles: the array of the response, [] when the response is not
\* an array, [] when youtrackFetch threw.
searchKBArticles(resp) ==
    IF resp.status = "ok" THEN resp.items ELSE <<>>

\* getKBArticle: the article, null (absent) when youtrackFetch threw.
getKBArticle(resp) ==
    IF resp.status = "ok" THEN Some(KBStore(resp.items[1])) ELSE Absent

RECURSIVE JoinComma(_)
JoinComma(strs) ==
    IF Len(strs) = 0 THEN ""
    ELSE IF Len(strs) = 1 THEN strs[1]
    ELSE strs[1] \o ", " \o JoinComma(Tail(strs))

formatArticle(article) ==
    JoinNL(
        <<Str("## " \o article.summary),
          Str("**ID:** " \o article.idReadable)>>
        \o (IF article.project # Absent
            THEN <<Str("**Project:** " \o article.project[1].name
                       \o " (" \o article.project[1].shortName \o ")")>>
            ELSE <<>>)
        \o (IF article.parentArticle # Absent
            THEN <<Str("**Parent:** " \o article.parentArticle[1].summary
                       \o " (" \o article.parentArticle[1].idReadable \o ")")>>
            ELSE <<>>)
        \o (IF Len(article.childArticles) > 0
            THEN <<Str("**Sub-articles:** " \o JoinComma(
                     [i \in DOMAIN article.childArticles |->
                        article.childArticles[i].summary \o " ("
                        \o article.childArticles[i].idReadable \o ")"]))>>
            ELSE <<>>)
        \o (IF ~Falsy(article.content)
            THEN <<EmptyString, article.content>>
            ELSE <<>>))

NoKBArticles == Str("No YouTrack knowledge base articles found for this query.")

\* The task before it is started.
KBIdle == [pc |-> "idle", articles |-> <<>>, issued |-> 0, results |-> <<>>,
           value |-> Undefined]

\* Mutant of NextFetches: the fetches of all hits started together (a map
\* over the hits awaited with Promise.all).
NextFetchesAll(articles, issued) == (issued + 1)..Len(articles)

\* The fetches the loop of searchAndFetchArticles issues before it suspends
\* again: the loop awaits each getKBArticle, so it is the next hit alone.
NextFetches(articles, issued) == {issued + 1}

\* The for-loop of searchAndFetchArticles, resumed with `issued` fetches
\* issued so far: evaluating article.idReadable on a null hit throws (the
\* task rejects); otherwise the next fetch goes out, and when no hit is left
\* and no fetch is outstanding the task resolves to the joined blocks.
KBLoop(articles, issued, results, reqs) ==
    IF issued < Len(articles)
    THEN LET next == NextFetches(articles, issued)
             last == CHOOSE j \in next : \A k \in next : k <= j
             new == [k \in 1..Cardinality(next) |->
                       Request("kb", "fetch", Absent, articles[issued + k])]
         IN  IF \E j \in next : articles[j] = NullHit
             THEN [task |-> [pc |-> "rejected", articles |-> articles,
                             issued |-> issued, results |-> results,
                             value |-> Undefined],
                   reqs |-> reqs]
             ELSE [task |-> [pc |-> "fetch", articles |-> articles,
                             issued |-> last, results |-> results,
                             value |-> Undefined],
                   reqs |-> reqs \o new]
    ELSE IF OutstandingOf(reqs, "kb", "fetch") # {}
    THEN [task |-> [pc |-> "fetch", articles |-> articles, issued |-> issued,
                    results |-> results, value |-> Undefined],
          reqs |-> reqs]
    ELSE [task |-> [pc |-> "resolved", articles |-> articles, issued |-> issued,
                    results |-> results, value |-> JoinSeparator(results)],
          reqs |-> reqs]

\* searchAndFetchArticles up to its first await: the search request goes out.
KBStart(maxArticles, reqs) ==
    [task |-> [KBIdle EXCEPT !.pc = "search"],
     reqs |-> Append(reqs, Request("kb", "search", Some(maxArticles), ""))]

\* Mutant of KBAfterSearch: no `articles.length === 0` early return.
KBAfterSearchNoEmptyCheck(articles, reqs) == KBLoop(articles, 0, <<>>, reqs)

\* searchAndFetchArticles resumed with the search result.
KBAfterSearch(articles, reqs) ==
    IF Len(articles) = 0
    THEN [task |-> [KBIdle EXCEPT !.pc = "resolved", !.value = NoKBArticles],
          reqs |-> reqs]
    ELSE KBLoop(articles, 0, <<>>, reqs)

\* Mutant of KBAfterFetch: no `if (fullArticle)` guard, so formatting the
\* null of a failed fetch throws.
KBAfterFetchNoNullCheck(task, fullArticle, reqs) ==
    IF fullArticle = Absent
    THEN [task |-> [task EXCEPT !.pc = "rejected"], reqs |-> reqs]
    ELSE KBLoop(task.articles, task.issued,
                Append(task.results, formatArticle(fullArticle[1])), reqs)

\* Mutant of KBAfterFetch: a null article ends the loop (a `break` in place
\* of the skip), and the blocks collected so far are returned.
KBAfterFetchBreakOnNull(task, fullArticle, reqs) ==
    IF fullArticle = Absent
    THEN [task |-> [task EXCEPT !.pc = "resolved",
                                !.value = JoinSeparator(task.results)],
          reqs |-> reqs]
    ELSE KBLoop(task.articles, task.issued,
                Append(task.results, formatArticle(fullArticle[1])), reqs)

\* searchAndFetchArticles resumed with the result of one getKBArticle.
KBAfterFetch(task, fullArticle, reqs) ==
    KBLoop(task.articles, task.issued,
           IF fullArticle # Absent
           THEN Append(task.results, formatArticle(fullArticle[1]))
           ELSE task.results,
           reqs)

-----------------------------------------------------------------------------
(* Support-site adapter: support-site.ts *)

SupportArticleIds == {"1001", "1002"}

\* The articles the help center holds (ZendeskArticle).  A body is the
\* sequence of the elements the selector of htmlToMarkdown matches, in
\* document order, each with its tag and its own trimmed text; <<>> is an
\* empty body.
ZendeskStore(id) ==
    IF id = "1001"
    THEN [title |-> "Reset your password",
          html_url |-> "https://support.therealbrokerage.com/hc/articles/1001",
          label_names |-> <<>>,
          body |-> <<[tag |-> "h2", text |-> <<"Title">>],
                     [tag |-> "p", text |-> <<"Body">>],
                     [tag |-> "p", text |-> <<"Body">>],
                     [tag |-> "li", text |-> <<"">>],
                     [tag |-> "h4", text |-> <<"Note">>],
                     [tag |-> "blockquote", text |-> <<"Quote">>]>>]
    ELSE [title |-> "Commission splits",
          html_url |-> "https://support.therealbrokerage.com/hc/articles/1002",
          label_names |-> <<"commission", "splits">>,
          body |-> <<>>]

SupportResponses(page) ==
    {Failure}
    \cup {[status |-> "ok", items |-> h] :
            h \in SeqUpTo(SupportArticleIds, PageCap(page, MaxSupportHits))}

\* The line the each() callback of htmlToMarkdown pushes for one element;
\* a heading line starts with a newline.
MarkdownLine(node) ==
    LET first == node.text[1]
        more == Tail(node.text)
    IN  CASE node.tag = "h1" -> <<"", "# " \o first>> \o more
          [] node.tag = "h2" -> <<"", "## " \o first>> \o more
          [] node.tag = "h3" -> <<"", "### " \o first>> \o more
          [] node.tag \in {"h4", "h5", "h6"} ->
               <<"">> \o (IF Len(more) = 0
                          THEN <<"**" \o first \o "**">>
                          ELSE <<"**" \o first>>
                               \o SubSeq(more, 1, Len(more) - 1)
                               \o <<more[Len(more)] \o "**">>)
          [] node.tag = "li" -> <<"- " \o first>> \o more
          [] node.tag = "blockquote" -> <<"> " \o first>> \o more
          [] OTHER -> node.text

RECURSIVE EmitLines(_)
\* The each() loop: one pushed string per matched element with a text.
EmitLines(nodes) ==
    IF Len(nodes) = 0 THEN <<>>
    ELSE (IF Falsy(nodes[1].text) THEN <<>> ELSE <<MarkdownLine(nodes[1])>>)
         \o EmitLines(Tail(nodes))

RECURSIVE DedupeAll(_, _)
\* Mutant of Dedupe: a line is dropped when it was pushed anywhere before.
DedupeAll(result, lines) ==
    IF Len(lines) = 0 THEN result
    ELSE DedupeAll(IF \A i \in DOMAIN result : result[i] # lines[1]
                   THEN Append(result, lines[1]) ELSE result,
                   Tail(lines))

RECURSIVE Dedupe(_, _)
\* "Deduplicate consecutive identical lines": result so far, lines left.
Dedupe(result, lines) ==
    IF Len(lines) = 0 THEN result
    ELSE Dedupe(IF Len(result) = 0 \/ result[Len(result)] # lines[1]
                THEN Append(result, lines[1]) ELSE result,
                Tail(lines))

NL == "\n"

RECURSIVE ToChars(_)
\* A text as the sequence of its characters, every non-empty line one token.
ToChars(text) ==
    IF Len(text) = 0 THEN <<>>
    ELSE (IF text[1] = "" THEN <<>> ELSE <<text[1]>>)
         \o (IF Len(text) = 1 THEN <<>> ELSE <<NL>> \o ToChars(Tail(text)))

RECURSIVE FromChars(_, _)
\* The lines of a character sequence: cur is the line being read.
FromChars(cur, chars) ==
    IF Len(chars) = 0 THEN <<cur>>
    ELSE IF chars[1] = NL THEN <<cur>> \o FromChars("", Tail(chars))
    ELSE FromChars(cur \o chars[1], Tail(chars))

RECURSIVE CollapseNewlines(_, _)
\* replace(/\n{3,}/g, '\n\n'): run counts the newlines just read.
CollapseNewlines(run, chars) ==
    IF Len(chars) = 0 THEN <<>>
    ELSE IF chars[1] = NL
         THEN (IF run < 2 THEN <<NL>> ELSE <<>>)
              \o CollapseNewlines(run + 1, Tail(chars))
         ELSE <<chars[1]>> \o CollapseNewlines(0, Tail(chars))

RECURSIVE TrimStart(_)
TrimStart(chars) ==
    IF Len(chars) > 0 /\ chars[1] = NL THEN TrimStart(Tail(chars)) ELSE chars

RECURSIVE TrimEnd(_)
TrimEnd(chars) ==
    IF Len(chars) > 0 /\ chars[Len(chars)] = NL
    THEN TrimEnd(SubSeq(chars, 1, Len(chars) - 1)) ELSE chars

Trim(chars) == TrimEnd(TrimStart(chars))

htmlToMarkdown(html) ==
    LET result == Dedupe(<<>>, EmitLines(html))
    IN  FromChars("", Trim(CollapseNewlines(0, ToChars(JoinNL(result)))))

\* htmlToMarkdown(article.body) for the bodies the help center holds, each
\* body converted once.
MarkdownOfBody ==
    [body \in {ZendeskStore(id).body : id \in SupportArticleIds} |->
        htmlToMarkdown(body)]

\* The block of one article, as getSupportArticle and
\* searchAndFetchSupportArticles build it.
formatSupportArticle(article) ==
    JoinNL(
        <<Str("# " \o article.title),
          Str("**Source:** " \o article.html_url)>>
        \o (IF Len(article.label_names) > 0
            THEN <<Str("**Labels:** " \o JoinComma(article.label_names))>>
            ELSE <<>>)
        \o (IF Len(article.body) > 0
            THEN <<EmptyString, MarkdownOfBody[article.body]>>
            ELSE <<>>))

NoSupportArticles == Str("No support articles found for this query.")

SupportError == Str("Error searching support articles: Zendesk API returned 500")

SupIdle == [pc |-> "idle", value |-> Undefined]

\* Mutant of SupStart: the support search held back until the KB task is
\* done (the handler awaiting one task before it starts the next).
SupStartAfterKB(maxArticles, reqs) ==
    [task |-> [SupIdle EXCEPT !.pc = "search"], reqs |-> reqs]

\* searchAndFetchSupportArticles up to its await: the one search request.
SupStart(maxArticles, reqs) ==
    [task |-> [SupIdle EXCEPT !.pc = "search"],
     reqs |-> Append(reqs, Request("support", "search", Some(maxArticles), ""))]

\* Mutant of searchAndFetchSupportArticles: only the first hit formatted.
searchAndFetchSupportArticlesFirstOnly(resp) ==
    IF resp.status # "ok" THEN SupportError
    ELSE IF Len(resp.items) = 0 THEN NoSupportArticles
    ELSE formatSupportArticle(ZendeskStore(resp.items[1]))

\* searchAndFetchSupportArticles resumed with the response: everything
\* after the fetch is inside its try block.
searchAndFetchSupportArticles(resp) ==
    IF resp.status # "ok" THEN SupportError
    ELSE IF Len(resp.items) = 0 THEN NoSupportArticles
    ELSE JoinSeparator([i \in DOMAIN resp.items |->
                          formatSupportArticle(ZendeskStore(resp.items[i]))])

\* A URL is the sequence of its parts between slashes, each part split
\* into its leading run of digits and what follows it.
Seg(digits, rest) == [digits |-> digits, rest |-> rest]
Plain(rest) == Seg("", rest)

HelpCenter ==
    <<Plain("https:"), Plain(""), Plain("support.therealbrokerage.com"),
      Plain("hc"), Plain("en-us")>>

\* The URLs a caller may pass to get_support_article.
SupportUrls ==
    {HelpCenter \o <<Plain("articles"), Seg("1001", "-Reset-password")>>,
     HelpCenter \o <<Plain("articles"), Seg("1002", "")>>,
     HelpCenter \o <<Plain("articles"), Seg("9999", "-Gone")>>,
     HelpCenter \o <<Plain("articles"), Plain("Reset-password")>>,
     HelpCenter \o <<Plain("articles"), Plain("")>>,
     HelpCenter \o <<Plain("sections"), Seg("1001", "-Accounts")>>,
     HelpCenter \o <<Plain("articles"), Plain("x"), Plain("articles"),
                     Seg("1002", "-Fees")>>,
     <<Plain("articles"), Seg("1001", "")>>,
     <<Plain("")>>}

RECURSIVE UrlString(_)
\* The URL as the caller wrote it.
UrlString(url) ==
    IF Len(url) = 0 THEN ""
    ELSE IF Len(url) = 1 THEN url[1].digits \o url[1].rest
    ELSE url[1].digits \o url[1].rest \o "/" \o UrlString(Tail(url))

\* Mutant of extractArticleId: the pattern /\/articles\/(.+)/, which takes
\* any non-empty part after /articles/.
extractArticleIdAny(url) ==
    LET at == {i \in 2..(Len(url) - 1) :
                  url[i] = Plain("articles")
                  /\ url[i + 1].digits \o url[i + 1].rest # ""}
    IN  IF at = {} THEN Absent
        ELSE LET i == CHOOSE k \in at : \A j \in at : k <= j
             IN  Some(url[i + 1].digits \o url[i + 1].rest)

\* url.match(/\/articles\/(\d+)/): the digits after the first "/articles/"
\* that is followed by a digit; absent when there is none.
extractArticleId(url) ==
    LET at == {i \in 2..(Len(url) - 1) :
                  url[i] = Plain("articles") /\ url[i + 1].digits # ""}
    IN  IF at = {} THEN Absent
        ELSE LET i == CHOOSE k \in at : \A j \in at : k <= j
             IN  Some(url[i + 1].digits)

CouldNotExtract(url) ==
    Str("Could not extract article ID from URL: " \o UrlString(url))

SupportArticleError == Str("Error fetching article: Zendesk API returned 404")

\* The answers of the help center to the fetch of one article.
ArticleResponses(id) ==
    {Failure}
    \cup (IF id \in SupportArticleIds
          THEN {[status |-> "ok", items |-> <<id>>]} ELSE {})

\* getSupportArticle resumed with the response, inside its try block.
getSupportArticle(resp) ==
    IF resp.status # "ok" THEN SupportArticleError
    ELSE formatSupportArticle(ZendeskStore(resp.items[1]))

-----------------------------------------------------------------------------
(* GitHub adapter: github-search.ts *)

\* Mutant of isGitHubConfigured: the token compared with undefined, which
\* the '' default never is.
isGitHubConfiguredAlways(token) == token # "undefined"

\* return GITHUB_TOKEN.length > 0
isGitHubConfigured(token) == Len(token) > 0

GhRepoIds == {"Realtyka/transaction-service"}
GhCodeIds == {"CommissionService.java"}

\* The repositories the code host finds (GitHubRepoMatch after the map).
GhRepoStore(id) ==
    [fullName |-> id, description |-> "Transactions", language |-> "Java",
     htmlUrl |-> "https://github.com/" \o id]

\* The code matches the code host finds (GitHubCodeMatch after the map).
GhCodeStore(id) ==
    [repository |-> "Realtyka/transaction-service", filePath |-> id,
     url |-> "https://github.com/Realtyka/transaction-service/blob/main/" \o id,
     textMatches |-> <<"class CommissionService">>]

GhRepoResponses(page) ==
    {Failure}
    \cup {[status |-> "ok", items |-> h] : h \in SeqUpTo(GhRepoIds, PageCap(page, MaxGhItems))}

GhCodeResponses(page) ==
    {Failure}
    \cup {[status |-> "ok", items |-> h] : h \in SeqUpTo(GhCodeIds, PageCap(page, MaxGhItems))}

\* searchGitHubCode: the mapped items, [] when githubFetch threw.
searchGitHubCode(resp) ==
    IF resp.status = "ok"
    THEN [i \in DOMAIN resp.items |-> GhCodeStore(resp.items[i])]
    ELSE <<>>

\* searchGitHubRepos: the mapped items, [] when githubFetch threw.
searchGitHubRepos(resp) ==
    IF resp.status = "ok"
    THEN [i \in DOMAIN resp.items |-> GhRepoStore(resp.items[i])]
    ELSE <<>>

GitHubNotConfigured ==
    Str("GitHub search is not configured (GITHUB_TOKEN not set). Skipping code search.")

RECURSIVE JoinDots(_)
\* textMatches.join('\n...\n')
JoinDots(frags) ==
    IF Len(frags) = 0 THEN EmptyString
    ELSE IF Len(frags) = 1 THEN Str(frags[1])
    ELSE <<frags[1], "...">> \o JoinDots(Tail(frags))

RepoLines(repo) ==
    <<Str("- **" \o repo.fullName \o "**"
          \o (IF repo.language # "" THEN " [" \o repo.language \o "]" ELSE "")
          \o (IF repo.description # "" THEN " - " \o repo.description ELSE "")),
      Str("  " \o repo.htmlUrl)>>

\* The code fence line (three backquotes in the source; the backquote is not
\* a character of a TLA+ string).
CodeFence == "~~~"

CodeLines(match) ==
    <<Str("### " \o match.repository \o " / " \o match.filePath),
      Str(match.url)>>
    \o (IF Len(match.textMatches) > 0
        THEN <<Str(CodeFence), JoinDots(match.textMatches), Str(CodeFence)>>
        ELSE <<>>)
    \o <<EmptyString>>

RECURSIVE Flatten(_)
\* The parts pushed by a for-of loop, one group of parts per element.
Flatten(groups) ==
    IF Len(groups) = 0 THEN <<>> ELSE groups[1] \o Flatten(Tail(groups))

\* The rendering of searchAndFetchGitHubResults after both searches.
renderGitHubResults(codeResults, repoResults) ==
    JoinNL(
        (IF Len(repoResults) > 0
         THEN <<Str("## Relevant Repositories"), EmptyString>>
              \o Flatten([i \in DOMAIN repoResults |-> RepoLines(repoResults[i])])
         ELSE <<Str("No matching repositories found.")>>)
        \o <<EmptyString>>
        \o (IF Len(codeResults) > 0
            THEN <<Str("## Code Matches"), EmptyString>>
                 \o Flatten([i \in DOMAIN codeResults |-> CodeLines(codeResults[i])])
            ELSE <<Str("No matching code found.")>>))

GhIdle == [pc |-> "idle", code |-> Absent, repo |-> Absent, value |-> Undefined]

\* searchAndFetchGitHubResults up to its await: the gate on the token, then
\* both searches started before either is awaited.
GhStart(token, reqs) ==
    IF ~isGitHubConfigured(token)
    THEN [task |-> [GhIdle EXCEPT !.pc = "resolved", !.value = GitHubNotConfigured],
          reqs |-> reqs]
    ELSE [task |-> [GhIdle EXCEPT !.pc = "wait"],
          reqs |-> reqs \o <<Request("github", "code", Some(10), ""),
                             Request("github", "repos", Some(5), "")>>]

\* Mutant of GhAfter: the task renders as soon as one of the two results is
\* in, the other taken as empty.
GhAfterEither(task) ==
    IF task.code # Absent \/ task.repo # Absent
    THEN [task EXCEPT !.pc = "resolved",
                      !.value = renderGitHubResults(
                                    IF task.code # Absent THEN task.code[1] ELSE <<>>,
                                    IF task.repo # Absent THEN task.repo[1] ELSE <<>>)]
    ELSE task

\* The inner Promise.all: the task renders once both results are in.
GhAfter(task) ==
    IF task.code # Absent /\ task.repo # Absent
    THEN [task EXCEPT !.pc = "resolved",
                      !.value = renderGitHubResults(task.code[1], task.repo[1])]
    ELSE task

-----------------------------------------------------------------------------
(* Tool handlers: registerTools *)

AskTool == "ask_product_question"
SearchTools == {"search_kb_articles", "search_support_site",
                "search_github_code", "search_github_repos"}
FileTools == {"get_github_file", "list_github_repo_contents"}
GitHubTools == {"search_github_code", "search_github_repos"} \cup FileTools
SupportArticleTool == "get_support_article"
Tools == {AskTool} \cup SearchTools \cup FileTools \cup {SupportArticleTool}

\* The arguments an invocation may carry (z.number().optional() and
\* z.boolean().optional(): any number, or absent).
LimitArgs == {Absent, Some(-1), Some(0), Some(1)}
FlagArgs == {Absent, Some(TRUE), Some(FALSE)}

NoArgs == [max_kb_articles |-> Absent, max_support_articles |-> Absent,
           include_github |-> Absent, limit |-> Absent, path |-> Absent,
           url |-> Absent]

ArgsOf(t) ==
    IF t = AskTool
    THEN {[NoArgs EXCEPT !.max_kb_articles = k, !.max_support_articles = s,
                         !.include_github = g] :
            k \in LimitArgs, s \in {Absent, Some(0)}, g \in FlagArgs}
    ELSE IF t \in SearchTools
    THEN {[NoArgs EXCEPT !.limit = l] : l \in LimitArgs}
    ELSE IF t = "get_github_file"
    THEN {[NoArgs EXCEPT !.path = Some("src/CommissionService.java")]}
    ELSE IF t = SupportArticleTool
    THEN {[NoArgs EXCEPT !.url = Some(u)] : u \in SupportUrls}
    ELSE {[NoArgs EXCEPT !.path = q] : q \in {Absent, Some(""), Some("src")}}

\* const kbLimit = max_kb_articles ?? 5
kbLimit(a) == NullishCoalesce(a.max_kb_articles, 5)

\* const supportLimit = max_support_articles ?? 3
supportLimit(a) == NullishCoalesce(a.max_support_articles, 3)

\* const shouldSearchGitHub = include_github ?? isGitHubConfigured()
shouldSearchGitHub(a, token) ==
    NullishCoalesce(a.include_github, isGitHubConfigured(token))

\* if (shouldSearchGitHub && isGitHubConfigured()) promises.push(...)
dispatchesGitHub(a, token) ==
    shouldSearchGitHub(a, token) /\ isGitHubConfigured(token)

\* Mutant of buildPromises: the code-host promise put first (unshift).
buildPromisesUnshift(a, token) ==
    (IF dispatchesGitHub(a, token) THEN <<"github">> ELSE <<>>)
    \o <<"kb", "support">>

\* The promises array: KB and support always, the code host pushed last.
buildPromises(a, token) ==
    <<"kb", "support">>
    \o (IF dispatchesGitHub(a, token) THEN <<"github">> ELSE <<>>)

TaskOf(name) ==
    CASE name = "kb" -> kb
      [] name = "support" -> sup
      [] name = "github" -> gh

\* Mutant of PromiseAll: fulfilled as soon as one promise is (first-completed
\* wins), the promises still pending giving undefined.
PromiseAnyFirst(ps, order) ==
    IF \E i \in DOMAIN ps : TaskOf(ps[i]).pc = "rejected"
    THEN [state |-> "rejected", values |-> <<>>]
    ELSE IF \E i \in DOMAIN ps : TaskOf(ps[i]).pc = "resolved"
    THEN [state |-> "fulfilled",
          values |-> [i \in DOMAIN ps |-> TaskOf(ps[i]).value]]
    ELSE [state |-> "pending", values |-> <<>>]

\* Mutant of PromiseAll: the values collected in the order of completion.
PromiseAllByCompletion(ps, order) ==
    IF \E i \in DOMAIN ps : TaskOf(ps[i]).pc = "rejected"
    THEN [state |-> "rejected", values |-> <<>>]
    ELSE IF \A i \in DOMAIN ps : TaskOf(ps[i]).pc = "resolved"
    THEN [state |-> "fulfilled",
          values |-> [i \in DOMAIN ps |-> TaskOf(order[i]).value]]
    ELSE [state |-> "pending", values |-> <<>>]

\* Mutant of PromiseAll: a deadline on the code-host task, whose value is
\* undefined when the two other tasks are done before it.
PromiseAllWithDeadline(ps, order) ==
    IF \E i \in DOMAIN ps : TaskOf(ps[i]).pc = "rejected"
    THEN [state |-> "rejected", values |-> <<>>]
    ELSE IF \A i \in DOMAIN ps : ps[i] # "github" => TaskOf(ps[i]).pc = "resolved"
    THEN [state |-> "fulfilled",
          values |-> [i \in DOMAIN ps |-> TaskOf(ps[i]).value]]
    ELSE [state |-> "pending", values |-> <<>>]

\* Promise.all over the promises `ps`, given the order in which the tasks
\* settled: rejected as soon as one promise is rejected, fulfilled once all
\* are, with the values in the order of `ps`.
PromiseAll(ps, order) ==
    IF \E i \in DOMAIN ps : TaskOf(ps[i]).pc = "rejected"
    THEN [state |-> "rejected", values |-> <<>>]
    ELSE IF \A i \in DOMAIN ps : TaskOf(ps[i]).pc = "resolved"
    THEN [state |-> "fulfilled",
          values |-> [i \in DOMAIN ps |-> TaskOf(ps[i]).value]]
    ELSE [state |-> "pending", values |-> <<>>]

\* const [kbContent, supportContent, githubContent] = await Promise.all(...)
Destructure(values) ==
    [kbContent |-> IF Len(values) >= 1 THEN values[1] ELSE Undefined,
     supportContent |-> IF Len(values) >= 2 THEN values[2] ELSE Undefined,
     githubContent |-> IF Len(values) >= 3 THEN values[3] ELSE Undefined]

NoContent == Destructure(<<>>)

KBHeading == Str("# YouTrack Knowledge Base Results")
SupportHeading == Str("# Support Site Results")
GitHubHeading == Str("# GitHub Code Search Results")
Rule == Str("---")

\* Mutant of composeResponse: the code-host text without its fallback.
composeResponseNoFallback(c) ==
    JoinNL(<<KBHeading, EmptyString, c.kbContent, EmptyString,
             Rule, EmptyString,
             SupportHeading, EmptyString, c.supportContent, EmptyString,
             Rule, EmptyString,
             GitHubHeading, EmptyString,
             IF c.githubContent = Undefined THEN EmptyString ELSE c.githubContent>>)

\* const response = [...].join('\n')
composeResponse(c) ==
    JoinNL(<<KBHeading, EmptyString, c.kbContent, EmptyString,
             Rule, EmptyString,
             SupportHeading, EmptyString, c.supportContent, EmptyString,
             Rule, EmptyString,
             GitHubHeading, EmptyString,
             OrElse(c.githubContent, GitHubNotConfigured)>>)

Settle(order, name, task) ==
    IF task.pc \in {"resolved", "rejected"} THEN Append(order, name) ELSE order

\* The handler of ask_product_question up to its await: the three
\* searchAndFetch calls run, in this order, each up to its first await.
AskDispatch ==
    /\ tool = AskTool
    /\ phase = "Dispatch"
    /\ LET k == KBStart(kbLimit(args), requests)
           s == SupStart(supportLimit(args), k.reqs)
           g == IF dispatchesGitHub(args, GITHUB_TOKEN)
                THEN GhStart(GITHUB_TOKEN, s.reqs)
                ELSE [task |-> GhIdle, reqs |-> s.reqs]
       IN  /\ kb' = k.task
           /\ sup' = s.task
           /\ gh' = g.task
           /\ requests' = g.reqs
           /\ promises' = buildPromises(args, GITHUB_TOKEN)
           /\ settled' = Settle(settled, "github", g.task)
    /\ phase' = "AwaitAll"
    /\ UNCHANGED <<config, other, tool, args, content, response>>

\* The upstream answers the KB article search.
KBSearchComplete ==
    /\ kb.pc = "search"
    /\ \E i \in OutstandingOf(requests, "kb", "search") :
       \E resp \in KBSearchResponses(requests[i].page[1]) :
          LET r == KBAfterSearch(searchKBArticles(resp), Answer(requests, i, resp))
          IN  /\ kb' = r.task
              /\ requests' = r.reqs
              /\ settled' = Settle(settled, "kb", r.task)
    /\ UNCHANGED <<config, other, tool, args, phase, sup, gh, promises, content,
                   response>>

\* The upstream answers one single-article fetch.
KBFetchComplete ==
    /\ kb.pc = "fetch"
    /\ \E i \in OutstandingOf(requests, "kb", "fetch") :
       \E resp \in KBFetchResponses(requests[i].id) :
          LET r == KBAfterFetch(kb, getKBArticle(resp), Answer(requests, i, resp))
          IN  /\ kb' = r.task
              /\ requests' = r.reqs
              /\ settled' = Settle(settled, "kb", r.task)
    /\ UNCHANGED <<config, other, tool, args, phase, sup, gh, promises, content,
                   response>>

\* The upstream answers the support search.
SupportComplete ==
    /\ sup.pc = "search"
    /\ \E i \in OutstandingOf(requests, "support", "search") :
       \E resp \in SupportResponses(requests[i].page[1]) :
          /\ sup' = [pc |-> "resolved",
                     value |-> searchAndFetchSupportArticles(resp)]
          /\ requests' = Answer(requests, i, resp)
          /\ settled' = Settle(settled, "support", sup')
    /\ UNCHANGED <<config, other, tool, args, phase, kb, gh, promises, content,
                   response>>

\* The upstream answers the code search.
GhCodeComplete ==
    /\ gh.pc = "wait"
    /\ \E i \in OutstandingOf(requests, "github", "code") :
       \E resp \in GhCodeResponses(requests[i].page[1]) :
          /\ gh' = GhAfter([gh EXCEPT !.code = Some(searchGitHubCode(resp))])
          /\ requests' = Answer(requests, i, resp)
          /\ settled' = Settle(settled, "github", gh')
    /\ UNCHANGED <<config, other, tool, args, phase, kb, sup, promises, content,
                   response>>

\* The upstream answers the repository search.
GhRepoComplete ==
    /\ gh.pc = "wait"
    /\ \E i \in OutstandingOf(requests, "github", "repos") :
       \E resp \in GhRepoResponses(requests[i].page[1]) :
          /\ gh' = GhAfter([gh EXCEPT !.repo = Some(searchGitHubRepos(resp))])
          /\ requests' = Answer(requests, i, resp)
          /\ settled' = Settle(settled, "github", gh')
    /\ UNCHANGED <<config, other, tool, args, phase, kb, sup, promises, content,
                   response>>

\* await Promise.all(promises) resumes with the values.
AwaitFulfilled ==
    /\ tool = AskTool
    /\ phase = "AwaitAll"
    /\ PromiseAll(promises, settled).state = "fulfilled"
    /\ content' = Destructure(PromiseAll(promises, settled).values)
    /\ phase' = "Merge"
    /\ UNCHANGED <<config, other, tool, args, kb, sup, gh, promises, settled,
                   requests, response>>

\* await Promise.all(promises) throws: the handler returns no response.
AwaitRejected ==
    /\ tool = AskTool
    /\ phase = "AwaitAll"
    /\ PromiseAll(promises, settled).state = "rejected"
    /\ phase' = "Faulted"
    /\ UNCHANGED <<config, other, tool, args, kb, sup, gh, promises, settled,
                   requests, content, response>>

\* The handler composes the response and returns it.
Respond ==
    /\ tool = AskTool
    /\ phase = "Merge"
    /\ response' = composeResponse(content)
    /\ phase' = "Respond"
    /\ UNCHANGED <<config, other, tool, args, kb, sup, gh, promises, settled,
                   requests, content>>

\* The default each search tool gives its limit (limit ?? 10, limit ?? 5).
defaultLimit(t) ==
    CASE t = "search_kb_articles" -> 10
      [] t = "search_support_site" -> 5
      [] t = "search_github_code" -> 10
      [] t = "search_github_repos" -> 5

toolLimit(t, a) == NullishCoalesce(a.limit, defaultLimit(t))

\* The upstream request a search tool issues.
ToolRequest(t, page) ==
    CASE t = "search_kb_articles" -> Request("kb", "search", Some(page), "")
      [] t = "search_support_site" -> Request("support", "search", Some(page), "")
      [] t = "search_github_code" -> Request("github", "code", Some(page), "")
      [] t = "search_github_repos" -> Request("github", "repos", Some(page), "")

ToolResponses(t, page) ==
    CASE t = "search_kb_articles" -> KBSearchResponses(page)
      [] t = "search_support_site" -> SupportResponses(page)
      [] t = "search_github_code" -> GhCodeResponses(page)
      [] t = "search_github_repos" -> GhRepoResponses(page)

GitHubToolNotConfigured ==
    Str("GitHub search is not configured. Set GITHUB_TOKEN environment variable to enable this tool.")

RECURSIVE JoinBlank(_)
\* blocks.join('\n\n')
JoinBlank(blocks) ==
    IF Len(blocks) = 0 THEN EmptyString
    ELSE IF Len(blocks) = 1 THEN blocks[1]
    ELSE blocks[1] \o EmptyString \o JoinBlank(Tail(blocks))

RECURSIVE JoinSpace(_)
\* content.replace(/\n/g, ' ')
JoinSpace(lines) ==
    IF Len(lines) = 0 THEN ""
    ELSE IF Len(lines) = 1 THEN lines[1]
    ELSE lines[1] \o " " \o JoinSpace(Tail(lines))

\* One entry of search_kb_articles.
kbEntry(a) ==
    <<"**" \o a.summary \o "** (" \o a.idReadable \o ")">>
    \o (IF a.project # Absent THEN <<"  Project: " \o a.project[1].name>> ELSE <<>>)
    \o (IF a.parentArticle # Absent
        THEN <<"  Parent: " \o a.parentArticle[1].summary>> ELSE <<>>)
    \o (IF ~Falsy(a.content) THEN <<"  " \o JoinSpace(a.content) \o "...">> ELSE <<>>)

\* One entry of search_support_site (title, url; the store has no snippet).
supportEntry(a) == <<"**" \o a.title \o "**", "  " \o a.html_url>>

\* One entry of search_github_code.
codeEntry(m) ==
    <<"**" \o m.repository \o "** / " \o m.filePath, "  " \o m.url>>
    \o (IF Len(m.textMatches) > 0
        THEN Str(CodeFence) \o JoinDots(m.textMatches) \o Str(CodeFence)
        ELSE <<>>)

\* One entry of search_github_repos.
repoEntry(r) ==
    <<"**" \o r.fullName \o "**">>
    \o (IF r.language # "" THEN <<"  Language: " \o r.language>> ELSE <<>>)
    \o (IF r.description # "" THEN <<"  " \o r.description>> ELSE <<>>)
    \o <<"  " \o r.htmlUrl>>

\* A search tool's handler throws when it reads a field of a null hit.
toolThrows(t, resp) ==
    t = "search_kb_articles" /\ \E i \in DOMAIN searchKBArticles(resp) :
                                   searchKBArticles(resp)[i] = NullHit

\* The text a search tool's handler returns for the response to its request.
toolText(t, resp) ==
    CASE t = "search_kb_articles" ->
           LET articles == searchKBArticles(resp)
           IN  IF Len(articles) = 0 THEN Str("No knowledge base articles found.")
               ELSE JoinBlank([i \in DOMAIN articles |-> kbEntry(KBStore(articles[i]))])
      [] t = "search_support_site" ->
           LET articles == IF resp.status = "ok" THEN resp.items ELSE <<>>
           IN  IF Len(articles) = 0 THEN Str("No support articles found.")
               ELSE JoinBlank([i \in DOMAIN articles |->
                                 supportEntry(ZendeskStore(articles[i]))])
      [] t = "search_github_code" ->
           LET results == searchGitHubCode(resp)
           IN  IF Len(results) = 0 THEN Str("No code matches found.")
               ELSE JoinBlank([i \in DOMAIN results |-> codeEntry(results[i])])
      [] t = "search_github_repos" ->
           LET results == searchGitHubRepos(resp)
           IN  IF Len(results) = 0 THEN Str("No matching repositories found.")
               ELSE JoinBlank([i \in DOMAIN results |-> repoEntry(results[i])])

\* A code-host search tool called without a token answers at once.
ToolNotConfigured ==
    /\ tool \in GitHubTools
    /\ phase = "Dispatch"
    /\ ~isGitHubConfigured(GITHUB_TOKEN)
    /\ response' = GitHubToolNotConfigured
    /\ phase' = "Respond"
    /\ UNCHANGED <<config, other, tool, args, kb, sup, gh, promises, settled,
                   requests, content>>

\* A search tool's handler up to its await: the one search request.
ToolDispatch ==
    /\ tool \in SearchTools
    /\ phase = "Dispatch"
    /\ tool \in GitHubTools => isGitHubConfigured(GITHUB_TOKEN)
    /\ requests' = Append(requests, ToolRequest(tool, toolLimit(tool, args)))
    /\ phase' = "Await"
    /\ UNCHANGED <<config, other, tool, args, kb, sup, gh, promises, settled,
                   content, response>>

\* The upstream answers and the handler returns its text.
ToolComplete ==
    /\ tool \in SearchTools
    /\ phase = "Await"
    /\ \E i \in Outstanding(requests) :
       \E resp \in ToolResponses(tool, requests[i].page[1]) :
          /\ ~toolThrows(tool, resp)
          /\ requests' = Answer(requests, i, resp)
          /\ response' = toolText(tool, resp)
    /\ phase' = "Respond"
    /\ UNCHANGED <<config, other, tool, args, kb, sup, gh, promises, settled,
                   content>>

\* The upstream answers and the handler throws on a null hit.
ToolThrows ==
    /\ tool \in SearchTools
    /\ phase = "Await"
    /\ \E i \in Outstanding(requests) :
       \E resp \in ToolResponses(tool, requests[i].page[1]) :
          /\ toolThrows(tool, resp)
          /\ requests' = Answer(requests, i, resp)
    /\ phase' = "Faulted"
    /\ UNCHANGED <<config, other, tool, args, kb, sup, gh, promises, settled,
                   content, response>>

-----------------------------------------------------------------------------
(* The file tools: get_github_file and list_github_repo_contents *)

GhRepo == "Realtyka/transaction-service"

\* The backquote of the source's texts (no character of a TLA+ string).
Tick == "~"

\* A file's content is held in chunks of this many characters.
ChunkChars == 25000

GhFileIds == {"CommissionService.java", "Schema.sql"}

\* The files of the code host (RepoFile): one short, one above the ceiling.
GhFileStore(id) ==
    IF id = "CommissionService.java"
    THEN [size |-> 25000, content |-> <<"class CommissionService">>,
          htmlUrl |-> "https://github.com/" \o GhRepo \o "/blob/main/" \o id]
    ELSE [size |-> 75000, content |-> <<"CREATE TABLE a", "CREATE TABLE b",
                                        "CREATE TABLE c">>,
          htmlUrl |-> "https://github.com/" \o GhRepo \o "/blob/main/" \o id]

GhEntryIds == {"src", "README.md"}

\* The entries of a directory (RepoEntry); `rank` is the place of the name
\* in the order of localeCompare.
GhEntryStore(id) ==
    IF id = "src"
    THEN [name |-> "src", path |-> "src", type |-> "dir", size |-> 0, rank |-> 2]
    ELSE [name |-> "README.md", path |-> "README.md", type |-> "file",
          size |-> 120, rank |-> 1]

MaxGhEntries == 2

FileResponses ==
    {Failure} \cup {[status |-> "ok", items |-> <<f>>] : f \in GhFileIds}

ContentsResponses ==
    {Failure}
    \cup {[status |-> "ok", items |-> h] : h \in SeqUpTo(GhEntryIds, MaxGhEntries)}

\* getGitHubFile: the file, absent when the fetch did not succeed.
getGitHubFile(resp) ==
    IF resp.status = "ok" THEN Some(GhFileStore(resp.items[1])) ELSE Absent

\* listRepoContents: the entries, [] when the fetch did not succeed.
listRepoContents(resp) ==
    IF resp.status = "ok"
    THEN [i \in DOMAIN resp.items |-> GhEntryStore(resp.items[i])]
    ELSE <<>>

\* const maxChars = 50000
maxChars == 50000

\* The comparison of entries.sort: directories first, then by name.
EntryBefore(a, b) ==
    IF a.type # b.type THEN a.type = "dir" ELSE a.rank < b.rank

RECURSIVE SortEntries(_)
SortEntries(entries) ==
    IF Len(entries) <= 1 THEN entries
    ELSE LET first == CHOOSE i \in DOMAIN entries :
                          \A j \in DOMAIN entries \ {i} :
                              EntryBefore(entries[i], entries[j])
             rest == [k \in 1..(Len(entries) - 1) |->
                          IF k < first THEN entries[k] ELSE entries[k + 1]]
         IN  <<entries[first]>> \o SortEntries(rest)

\* One line of list_github_repo_contents (the icons written as words).
entryLine(e) ==
    (IF e.type = "dir" THEN "[dir]" ELSE "[file]") \o " " \o e.path
    \o (IF e.type = "file" THEN " (" \o ToString(e.size) \o " bytes)" ELSE "")

\* The upstream request a file tool issues.
FileToolRequest(t, a) ==
    IF t = "get_github_file"
    THEN Request("github", "file", Absent, a.path[1])
    ELSE Request("github", "contents", Absent, OrElse(a.path, EmptyString)[1])

FileToolResponses(t) ==
    IF t = "get_github_file" THEN FileResponses ELSE ContentsResponses

\* The text of get_github_file for the file the adapter returned.
fileText(a, file) ==
    IF file = Absent THEN Str("File not found: " \o GhRepo \o "/" \o a.path[1])
    ELSE LET f == file[1]
             kept == maxChars \div ChunkChars
             truncated == Len(f.content) * ChunkChars > maxChars
             shown == IF truncated THEN SubSeq(f.content, 1, kept) ELSE f.content
         IN  <<"**" \o GhRepo \o "** / " \o Tick \o a.path[1] \o Tick,
               "**Size:** " \o ToString(f.size) \o " bytes",
               "**URL:** " \o f.htmlUrl,
               CodeFence>>
             \o shown \o <<CodeFence>>
             \o (IF truncated
                 THEN <<"", "*File truncated at " \o ToString(maxChars)
                            \o " characters. Total size: " \o ToString(f.size)
                            \o " bytes.*">>
                 ELSE <<>>)

\* The text of list_github_repo_contents for the entries the adapter returned.
contentsText(a, entries) ==
    IF Len(entries) = 0
    THEN Str("No contents found at " \o GhRepo \o "/" \o OrElse(a.path, EmptyString)[1])
    ELSE LET sorted == SortEntries(entries)
         IN  <<"**" \o GhRepo \o "** / " \o Tick \o OrElse(a.path, Str("/"))[1] \o Tick,
               "">>
             \o [i \in DOMAIN sorted |-> entryLine(sorted[i])]

fileToolText(t, a, resp) ==
    IF t = "get_github_file" THEN fileText(a, getGitHubFile(resp))
    ELSE contentsText(a, listRepoContents(resp))

\* A file tool's handler up to its await: the one request.
FileToolDispatch ==
    /\ tool \in FileTools
    /\ phase = "Dispatch"
    /\ isGitHubConfigured(GITHUB_TOKEN)
    /\ requests' = Append(requests, FileToolRequest(tool, args))
    /\ phase' = "Await"
    /\ UNCHANGED <<config, other, tool, args, kb, sup, gh, promises, settled,
                   content, response>>

\* The upstream answers and the handler returns its text.
FileToolComplete ==
    /\ tool \in FileTools
    /\ phase = "Await"
    /\ \E i \in Outstanding(requests) :
       \E resp \in FileToolResponses(tool) :
          /\ requests' = Answer(requests, i, resp)
          /\ response' = fileToolText(tool, args, resp)
    /\ phase' = "Respond"
    /\ UNCHANGED <<config, other, tool, args, kb, sup, gh, promises, settled,
                   content>>

\* get_support_article with a URL that holds no article identifier: the
\* adapter returns its message before any fetch.
SupportArticleNoId ==
    /\ tool = SupportArticleTool
    /\ phase = "Dispatch"
    /\ extractArticleId(args.url[1]) = Absent
    /\ response' = CouldNotExtract(args.url[1])
    /\ phase' = "Respond"
    /\ UNCHANGED <<config, other, tool, args, kb, sup, gh, promises, settled,
                   requests, content>>

\* get_support_article up to the await of its fetch.
SupportArticleDispatch ==
    /\ tool = SupportArticleTool
    /\ phase = "Dispatch"
    /\ extractArticleId(args.url[1]) # Absent
    /\ requests' = Append(requests, Request("support", "article", Absent,
                                            extractArticleId(args.url[1])[1]))
    /\ phase' = "Await"
    /\ UNCHANGED <<config, other, tool, args, kb, sup, gh, promises, settled,
                   content, response>>

\* The help center answers and the handler returns the adapter's text.
SupportArticleComplete ==
    /\ tool = SupportArticleTool
    /\ phase = "Await"
    /\ \E i \in Outstanding(requests) :
       \E resp \in ArticleResponses(requests[i].id) :
          /\ requests' = Answer(requests, i, resp)
          /\ response' = getSupportArticle(resp)
    /\ phase' = "Respond"
    /\ UNCHANGED <<config, other, tool, args, kb, sup, gh, promises, settled,
                   content>>

\* No second invocation has been made.
NotStarted == [phase |-> "None"]

Init ==
    /\ YOUTRACK_BASE_URL = <<Host>>
    /\ YOUTRACK_TOKEN = "perm:token"
    /\ YOUTRACK_DEFAULT_PROJECT = "RV2"
    /\ GITHUB_ORG = "Realtyka"
    /\ other = NotStarted
    /\ GITHUB_TOKEN \in {"", "ghp_token"}
    /\ tool \in Tools
    /\ args \in ArgsOf(tool)
    /\ phase = "Dispatch"
    /\ kb = KBIdle
    /\ sup = SupIdle
    /\ gh = GhIdle
    /\ promises = <<>>
    /\ settled = <<>>
    /\ requests = <<>>
    /\ content = NoContent
    /\ response = Undefined

Next ==
    \/ AskDispatch
    \/ KBSearchComplete
    \/ KBFetchComplete
    \/ SupportComplete
    \/ GhCodeComplete
    \/ GhRepoComplete
    \/ AwaitFulfilled
    \/ AwaitRejected
    \/ Respond
    \/ ToolNotConfigured
    \/ ToolDispatch
    \/ ToolComplete
    \/ ToolThrows
    \/ FileToolDispatch
    \/ FileToolComplete
    \/ SupportArticleNoId
    \/ SupportArticleDispatch
    \/ SupportArticleComplete

Spec == Init /\ [][Next]_vars

-----------------------------------------------------------------------------
(* Two invocations of ask_product_question at the same time.  The second   *)
(* invocation runs the same handler on its own locals, held in the record  *)
(* `other`; the event loop interleaves the steps of the two.               *)

\* The locals of an invocation of ask_product_question that has not run yet.
Invocation(a) ==
    [args |-> a, phase |-> "Dispatch", kb |-> KBIdle, sup |-> SupIdle,
     gh |-> GhIdle, promises |-> <<>>, settled |-> <<>>, requests |-> <<>>,
     content |-> NoContent, response |-> Undefined]

\* Mutant of TaskIn: the tasks kept in module-level variables, which every
\* invocation reads.
TaskInShared(st, name) == TaskOf(name)

\* The task of invocation `st` behind a promise.
TaskIn(st, name) ==
    CASE name = "kb" -> st.kb
      [] name = "support" -> st.sup
      [] name = "github" -> st.gh

\* Promise.all over the promises of invocation `st`.
PromiseAllIn(st) ==
    IF \E i \in DOMAIN st.promises : TaskIn(st, st.promises[i]).pc = "rejected"
    THEN [state |-> "rejected", values |-> <<>>]
    ELSE IF \A i \in DOMAIN st.promises : TaskIn(st, st.promises[i]).pc = "resolved"
    THEN [state |-> "fulfilled",
          values |-> [i \in DOMAIN st.promises |-> TaskIn(st, st.promises[i]).value]]
    ELSE [state |-> "pending", values |-> <<>>]

\* The handler up to its await.
DispatchIn(st, token) ==
    LET k == KBStart(kbLimit(st.args), st.requests)
        s == SupStart(supportLimit(st.args), k.reqs)
        g == IF dispatchesGitHub(st.args, token)
             THEN GhStart(token, s.reqs)
             ELSE [task |-> GhIdle, reqs |-> s.reqs]
    IN  [st EXCEPT !.kb = k.task, !.sup = s.task, !.gh = g.task,
                   !.requests = g.reqs,
                   !.promises = buildPromises(st.args, token),
                   !.settled = Settle(st.settled, "github", g.task),
                   !.phase = "AwaitAll"]

\* The states of invocation `st` after its request i is answered with resp.
AnswerIn(st, i, resp) ==
    LET r == st.requests[i]
        reqs == Answer(st.requests, i, resp)
    IN  CASE r.src = "kb" /\ r.op = "search" ->
               LET n == KBAfterSearch(searchKBArticles(resp), reqs)
               IN  [st EXCEPT !.kb = n.task, !.requests = n.reqs,
                              !.settled = Settle(st.settled, "kb", n.task)]
          [] r.src = "kb" /\ r.op = "fetch" ->
               LET n == KBAfterFetch(st.kb, getKBArticle(resp), reqs)
               IN  [st EXCEPT !.kb = n.task, !.requests = n.reqs,
                              !.settled = Settle(st.settled, "kb", n.task)]
          [] r.src = "support" ->
               LET n == [pc |-> "resolved",
                         value |-> searchAndFetchSupportArticles(resp)]
               IN  [st EXCEPT !.sup = n, !.requests = reqs,
                              !.settled = Settle(st.settled, "support", n)]
          [] r.src = "github" /\ r.op = "code" ->
               LET n == GhAfter([st.gh EXCEPT !.code = Some(searchGitHubCode(resp))])
               IN  [st EXCEPT !.gh = n, !.requests = reqs,
                              !.settled = Settle(st.settled, "github", n)]
          [] r.src = "github" /\ r.op = "repos" ->
               LET n == GhAfter([st.gh EXCEPT !.repo = Some(searchGitHubRepos(resp))])
               IN  [st EXCEPT !.gh = n, !.requests = reqs,
                              !.settled = Settle(st.settled, "github", n)]

\* The answers the upstream of request r may give.
ResponsesTo(r) ==
    CASE r.src = "kb" /\ r.op = "search" -> KBSearchResponses(r.page[1])
      [] r.src = "kb" /\ r.op = "fetch" -> KBFetchResponses(r.id)
      [] r.src = "support" -> SupportResponses(r.page[1])
      [] r.src = "github" /\ r.op = "code" -> GhCodeResponses(r.page[1])
      [] r.src = "github" /\ r.op = "repos" -> GhRepoResponses(r.page[1])

\* The second invocation's handler runs up to its await.
OtherDispatch ==
    /\ other.phase = "Dispatch"
    /\ other' = DispatchIn(other, GITHUB_TOKEN)
    /\ UNCHANGED <<config, tool, args, phase, kb, sup, gh, promises, settled,
                   requests, content, response>>

\* An upstream answers one request of the second invocation.
OtherUpstreamAnswers ==
    /\ other.phase = "AwaitAll"
    /\ \E i \in Outstanding(other.requests) :
       \E resp \in ResponsesTo(other.requests[i]) :
          other' = AnswerIn(other, i, resp)
    /\ UNCHANGED <<config, tool, args, phase, kb, sup, gh, promises, settled,
                   requests, content, response>>

\* The second invocation's await resumes with the values.
OtherAwaitFulfilled ==
    /\ other.phase = "AwaitAll"
    /\ PromiseAllIn(other).state = "fulfilled"
    /\ other' = [other EXCEPT !.content = Destructure(PromiseAllIn(other).values),
                              !.phase = "Merge"]
    /\ UNCHANGED <<config, tool, args, phase, kb, sup, gh, promises, settled,
                   requests, content, response>>

\* The second invocation's await throws.
OtherAwaitRejected ==
    /\ other.phase = "AwaitAll"
    /\ PromiseAllIn(other).state = "rejected"
    /\ other' = [other EXCEPT !.phase = "Faulted"]
    /\ UNCHANGED <<config, tool, args, phase, kb, sup, gh, promises, settled,
                   requests, content, response>>

\* The second invocation composes its response and returns it.
OtherRespond ==
    /\ other.phase = "Merge"
    /\ other' = [other EXCEPT !.response = composeResponse(other.content),
                              !.phase = "Respond"]
    /\ UNCHANGED <<config, tool, args, phase, kb, sup, gh, promises, settled,
                   requests, content, response>>

\* Two invocations in flight, with and without a token, neither asking for
\* the code host; one article asked of each source.
InitTwo ==
    /\ YOUTRACK_BASE_URL = <<Host>>
    /\ YOUTRACK_TOKEN = "perm:token"
    /\ YOUTRACK_DEFAULT_PROJECT = "RV2"
    /\ GITHUB_ORG = "Realtyka"
    /\ GITHUB_TOKEN \in {"", "ghp_token"}
    /\ tool = AskTool
    /\ args = [NoArgs EXCEPT !.max_kb_articles = Some(1),
                             !.max_support_articles = Some(1),
                             !.include_github = Some(FALSE)]
    /\ phase = "Dispatch"
    /\ kb = KBIdle
    /\ sup = SupIdle
    /\ gh = GhIdle
    /\ promises = <<>>
    /\ settled = <<>>
    /\ requests = <<>>
    /\ content = NoContent
    /\ response = Undefined
    /\ other = Invocation([NoArgs EXCEPT !.max_kb_articles = Some(1),
                                         !.max_support_articles = Some(1),
                                         !.include_github = Some(FALSE)])

NextTwo ==
    \/ AskDispatch
    \/ KBSearchComplete
    \/ KBFetchComplete
    \/ SupportComplete
    \/ AwaitFulfilled
    \/ AwaitRejected
    \/ Respond
    \/ OtherDispatch
    \/ OtherUpstreamAnswers
    \/ OtherAwaitFulfilled
    \/ OtherAwaitRejected
    \/ OtherRespond

TwoSpec == InitTwo /\ [][NextTwo]_vars

\* The invocations followed to their end: every tool, with and without a
\* token, the optional limits and the inclusion flag left out.
InitLive ==
    /\ Init
    /\ args.max_kb_articles = Absent
    /\ args.max_support_articles = Absent
    /\ args.include_github = Absent
    /\ args.limit = Absent

\* An upstream call completes, with any of its answers.
UpstreamAnswers ==
    \/ KBSearchComplete
    \/ KBFetchComplete
    \/ SupportComplete
    \/ GhCodeComplete
    \/ GhRepoComplete
    \/ ToolComplete
    \/ ToolThrows
    \/ FileToolComplete
    \/ SupportArticleComplete

\* A handler runs from where it is to its next await or to its return.
HandlerRuns ==
    \/ AskDispatch
    \/ AwaitFulfilled
    \/ AwaitRejected
    \/ Respond
    \/ ToolNotConfigured
    \/ ToolDispatch
    \/ FileToolDispatch
    \/ SupportArticleNoId
    \/ SupportArticleDispatch

\* The event loop runs a handler that can run, and no upstream call hangs:
\* while calls are outstanding one of them is eventually answered.
LiveSpec ==
    /\ InitLive
    /\ [][Next]_vars
    /\ WF_vars(HandlerRuns)
    /\ WF_vars(UpstreamAnswers)

-----------------------------------------------------------------------------
(* The adapters' pure functions, each applied to the inputs it can get *)

\* The configuration of a deployment, and no invocation in progress.
Fresh ==
    /\ YOUTRACK_TOKEN = "perm:token"
    /\ YOUTRACK_DEFAULT_PROJECT = "RV2"
    /\ GITHUB_TOKEN = ""
    /\ GITHUB_ORG = "Realtyka"
    /\ phase = "Dispatch"
    /\ kb = KBIdle
    /\ sup = SupIdle
    /\ gh = GhIdle
    /\ promises = <<>>
    /\ settled = <<>>
    /\ requests = <<>>
    /\ content = NoContent
    /\ response = Undefined
    /\ other = NotStarted

MaxNodes == 3    \* most elements matched in an article body

\* The matched elements: a heading, a paragraph or a list item whose text
\* is empty, one line, or lines with blank lines between them.
Nodes ==
    {[tag |-> t, text |-> x] :
        t \in {"h2", "p", "li"},
        x \in {<<"">>, <<"A">>, <<"B">>, <<"A", "", "", "B">>}}

HtmlBodies == UNION {[1..n -> Nodes] : n \in 0..MaxNodes}

\* htmlToMarkdown is called with an article body.
InitMarkdown ==
    /\ Fresh
    /\ YOUTRACK_BASE_URL = <<Host>>
    /\ tool = "htmlToMarkdown"
    /\ args \in {[html |-> b] : b \in HtmlBodies}

\* htmlToMarkdown returns.
ApplyHtmlToMarkdown ==
    /\ tool = "htmlToMarkdown"
    /\ phase = "Dispatch"
    /\ response' = htmlToMarkdown(args.html)
    /\ phase' = "Respond"
    /\ UNCHANGED <<config, other, tool, args, kb, sup, gh, promises, settled,
                   requests, content>>

MarkdownSpec == InitMarkdown /\ [][ApplyHtmlToMarkdown]_vars

MaxPathLen == 5    \* most characters after the host in a base URL

\* The values YOUTRACK_BASE_URL may have: '' when the variable is not set,
\* else a host followed by any characters.
BaseUrls ==
    {<<>>}
    \cup {<<Host>> \o path :
            path \in UNION {[1..n -> {"/", "a", "p", "i", "v"}] : n \in 0..MaxPathLen}}

\* getBaseUrl is called by youtrackFetch.
InitUrl ==
    /\ Fresh
    /\ YOUTRACK_BASE_URL \in BaseUrls
    /\ tool = "getBaseUrl"
    /\ args = NoArgs

\* getBaseUrl returns.
ApplyGetBaseUrl ==
    /\ tool = "getBaseUrl"
    /\ phase = "Dispatch"
    /\ response' = getBaseUrl(YOUTRACK_BASE_URL)
    /\ phase' = "Respond"
    /\ UNCHANGED <<config, other, tool, args, kb, sup, gh, promises, settled,
                   requests, content>>

UrlSpec == InitUrl /\ [][ApplyGetBaseUrl]_vars

-----------------------------------------------------------------------------
(* Properties of ask_product_question *)

Range(f) == {f[i] : i \in DOMAIN f}

\* Every task handed to Promise.all has resolved and no request is pending.
AllTasksDone ==
    /\ \A i \in DOMAIN promises : TaskOf(promises[i]).pc = "resolved"
    /\ Outstanding(requests) = {}

ResponseProduced == phase \in {"Merge", "Respond"} \/ response # Undefined

ResponseAfterAllTasks == ResponseProduced => AllTasksDone

PhaseSteps ==
    {<<"Dispatch", "AwaitAll">>, <<"AwaitAll", "Merge">>, <<"Merge", "Respond">>,
     <<"AwaitAll", "Faulted">>}

\* C1: an ask_product_question invocation moves through Dispatch, AwaitAll,
\* Merge, Respond in this order, each entered at most once (or leaves
\* AwaitAll by a fault, without a response), and a response is composed or
\* returned only in a state where every dispatched task has completed.
C1_PhasesInOrderAfterAllTasks ==
    [][tool = AskTool =>
          /\ phase' # phase => <<phase, phase'>> \in PhaseSteps
          /\ ResponseAfterAllTasks']_vars

\* A response returned after three tasks that completed in the reverse of
\* their dispatch order.
C1_Witness ==
    /\ tool = AskTool
    /\ phase = "Respond"
    /\ response # Undefined
    /\ settled = <<"github", "support", "kb">>

\* The lines of `text` from position `from`, `n` of them.
Lines(text, from, n) ==
    IF from + n - 1 <= Len(text) THEN SubSeq(text, from, from + n - 1) ELSE <<>>

\* Where the support section's text starts in the response, given the
\* length of the KB text.
SupportOffset(k) == k + 8

\* Where the code-host section's text starts.
GitHubOffset(k, s) == k + s + 13

\* C2: whatever the order in which the tasks completed, the response holds
\* the KB heading and the KB adapter's text first, then the support heading
\* and the support adapter's text, and, when the code-host task was
\* dispatched, the code-host heading and the code-host adapter's text last:
\* the response is a function of the three texts alone.
C2_SectionsInFixedOrder ==
    (tool = AskTool /\ phase = "Respond") =>
        LET k == Len(kb.value)
            s == Len(sup.value)
        IN  /\ Lines(response, 1, 2) = KBHeading \o EmptyString
            /\ Lines(response, 3, k) = kb.value
            /\ Lines(response, k + 3, 5) =
                   EmptyString \o Rule \o EmptyString \o SupportHeading \o EmptyString
            /\ Lines(response, SupportOffset(k), s) = sup.value
            /\ "github" \in Range(promises) =>
                   /\ Lines(response, k + s + 8, 5) =
                          EmptyString \o Rule \o EmptyString \o GitHubHeading
                          \o EmptyString
                   /\ Lines(response, GitHubOffset(k, s), Len(gh.value)) = gh.value
                   /\ Len(response) = k + s + 12 + Len(gh.value)

\* A response whose three tasks completed in the reverse of their dispatch
\* order, with three different texts.
C2_Witness ==
    /\ tool = AskTool
    /\ phase = "Respond"
    /\ settled = <<"github", "support", "kb">>
    /\ kb.value # sup.value
    /\ Len(kb.value) > 1
    /\ Len(sup.value) > 1

TaskNames == {"kb", "support", "github"}

\* Some search answered with an array that holds a null element.
HasNullHit ==
    \E i \in DOMAIN requests : NullHit \in Range(requests[i].resp.items)

FailedRequests(src) ==
    {i \in DOMAIN requests : requests[i].src = src /\ requests[i].resp.status = "fail"}

OutstandingFrom(src) == {i \in Outstanding(requests) : requests[i].src = src}

\* C3: an upstream failure (non-2xx status, network error) never makes an
\* adapter call raise: a task is rejected, or a handler faults, only when a
\* search answered with a malformed (null) hit; without one, every started
\* task whose requests have all been answered, failed or not, has resolved
\* to a text, and the response of the invocation is a non-empty text.
C3_UpstreamFailureNeverRaises ==
    /\ \A n \in TaskNames : TaskOf(n).pc = "rejected" => HasNullHit
    /\ phase = "Faulted" => HasNullHit
    /\ ~HasNullHit =>
          /\ \A n \in TaskNames :
                (TaskOf(n).pc # "idle" /\ OutstandingFrom(n) = {}) =>
                    /\ TaskOf(n).pc = "resolved"
                    /\ Len(TaskOf(n).value) >= 1
          /\ phase = "Respond" => Len(response) >= 1

\* A response returned although a KB fetch, the support search and a
\* code-host search all failed.
C3_Witness ==
    /\ tool = AskTool
    /\ phase = "Respond"
    /\ \E i \in FailedRequests("kb") : requests[i].op = "fetch"
    /\ FailedRequests("support") # {}
    /\ FailedRequests("github") # {}

IsKBSearch(r) == r.src = "kb" /\ r.op = "search"
IsKBFetch(r) == r.src = "kb" /\ r.op = "fetch"
IsSupportSearch(r) == r.src = "support" /\ r.op = "search"

KBSearchLog == SelectSeq(requests, IsKBSearch)
KBFetchLog == SelectSeq(requests, IsKBFetch)
SupportLog == SelectSeq(requests, IsSupportSearch)

FetchedOK(r) == r.resp.status = "ok"

\* The KB text as a function of what the KB upstream answered, and of
\* nothing else: the fixed sentence for a search without hits, else the
\* blocks of the fetches that succeeded, in the order they were issued.
KBTextOf(searchLog, fetchLog) ==
    IF Len(searchLog) = 0 \/ searchLog[1].resp.status # "ok"
       \/ Len(searchLog[1].resp.items) = 0
    THEN NoKBArticles
    ELSE LET ok == SelectSeq(fetchLog, FetchedOK)
         IN  JoinSeparator([i \in DOMAIN ok |-> formatArticle(KBStore(ok[i].id))])

\* The support text as a function of what the support upstream answered.
SupportTextOf(log) == searchAndFetchSupportArticles(log[1].resp)

\* C4: in every response of ask_product_question the KB section is the text
\* determined by the KB upstream's answers alone and the support section is
\* the text determined by the support upstream's answer alone, whatever the
\* token, the inclusion flag and the outcome of the code-host calls, and
\* whatever the other of the two sources answered.
C4_SectionsDependOnOwnSource ==
    (tool = AskTool /\ phase = "Respond") =>
        LET kt == KBTextOf(KBSearchLog, KBFetchLog)
            st == SupportTextOf(SupportLog)
        IN  /\ Lines(response, 1, Len(kt) + 5) =
                   KBHeading \o EmptyString \o kt \o EmptyString \o Rule
                   \o EmptyString
            /\ Lines(response, Len(kt) + 6, Len(st) + 5) =
                   SupportHeading \o EmptyString \o st \o EmptyString \o Rule
                   \o EmptyString

\* A response with the code host dispatched and failing, the KB search
\* failing, and the support search answering with an article.
C4_Witness ==
    /\ tool = AskTool
    /\ phase = "Respond"
    /\ "github" \in Range(promises)
    /\ FailedRequests("github") # {}
    /\ \E i \in FailedRequests("kb") : requests[i].op = "search"
    /\ Len(SupportLog[1].resp.items) > 0

\* C5: without a token and without the inclusion flag, the response ends
\* with the code-host heading followed by exactly the fixed "not configured"
\* sentence, after the KB section and the support section with their
\* adapters' texts; no code-host request is issued.
C5_NotConfiguredSection ==
    (tool = AskTool /\ phase = "Respond" /\ GITHUB_TOKEN = ""
     /\ args.include_github = Absent) =>
        LET k == Len(kb.value)
            s == Len(sup.value)
        IN  /\ Lines(response, 3, k) = kb.value
            /\ Lines(response, SupportOffset(k), s) = sup.value
            /\ Lines(response, k + s + 8, 6) =
                   EmptyString \o Rule \o EmptyString \o GitHubHeading
                   \o EmptyString \o GitHubNotConfigured
            /\ Len(response) = k + s + 13
            /\ \A i \in DOMAIN requests : requests[i].src # "github"

\* Such a response, with a fetched KB article and a support article in it.
C5_Witness ==
    /\ tool = AskTool
    /\ phase = "Respond"
    /\ GITHUB_TOKEN = ""
    /\ args.include_github = Absent
    /\ Len(kb.results) > 0
    /\ Len(SupportLog[1].resp.items) > 0

\* C6: a response to an invocation whose inclusion flag is false is the KB
\* section, a separator and the support section, and holds neither the
\* code-results heading nor a code-host text.
C6_NoCodeSectionUnlessRequested ==
    (tool = AskTool /\ phase = "Respond" /\ args.include_github = Some(FALSE)) =>
        /\ GitHubHeading[1] \notin Range(response)
        /\ GitHubNotConfigured[1] \notin Range(response)
        /\ response = KBHeading \o EmptyString \o kb.value \o EmptyString \o Rule
                      \o EmptyString \o SupportHeading \o EmptyString \o sup.value

\* The limit the claim says a request carries: the documented default when
\* the argument is absent or not positive.
DocumentedLimit(arg, default) ==
    IF arg = Absent \/ arg[1] <= 0 THEN default ELSE arg[1]

\* C7: every upstream search request carries the tool's limit with an
\* absent or non-positive limit replaced by the documented default (5 and 3
\* for ask_product_question, 10, 5, 10, 5 for the search tools), so no
\* request carries a page size of 0 or less.
C7_NonPositiveLimitDefaulted ==
    \A i \in DOMAIN requests :
        LET r == requests[i]
        IN  r.page # Absent =>
              /\ r.page[1] > 0
              /\ (tool = AskTool /\ r.src = "kb") =>
                     r.page[1] = DocumentedLimit(args.max_kb_articles, 5)
              /\ (tool = AskTool /\ r.src = "support") =>
                     r.page[1] = DocumentedLimit(args.max_support_articles, 3)
              /\ tool \in {"search_kb_articles", "search_github_code"} =>
                     r.page[1] = DocumentedLimit(args.limit, 10)
              /\ tool \in {"search_support_site", "search_github_repos"} =>
                     r.page[1] = DocumentedLimit(args.limit, 5)

\* C8: in a response of ask_product_question, the section of a source one
\* of whose upstream calls failed is a non-empty message, never the empty
\* text.
C8_FailureYieldsMessage ==
    (tool = AskTool /\ phase = "Respond") =>
        /\ FailedRequests("kb") # {} => ~Falsy(content.kbContent)
        /\ FailedRequests("support") # {} => ~Falsy(content.supportContent)
        /\ FailedRequests("github") # {} => ~Falsy(content.githubContent)

\* The KB search has been answered and searchKBArticles got no hit from it:
\* a failed call, a result that is no array, or an empty array.
KBSearchWithoutHits ==
    /\ Len(KBSearchLog) = 1
    /\ \/ KBSearchLog[1].resp.status \in {"fail", "nonarray"}
       \/ KBSearchLog[1].resp.status = "ok" /\ KBSearchLog[1].resp.items = <<>>

\* C9: when the search of KB searchAndFetch yields no hit, the task has
\* resolved to exactly the fixed sentence and the search is the only
\* request the KB adapter issued: no single-article fetch goes out.
C9_ZeroHitsNoFetch ==
    (tool = AskTool /\ KBSearchWithoutHits) =>
        /\ kb.pc = "resolved"
        /\ kb.value = <<"No YouTrack knowledge base articles found for this query.">>
        /\ KBFetchLog = <<>>
        /\ Cardinality({i \in DOMAIN requests : requests[i].src = "kb"}) = 1

\* The search answered with something that is no array, and the invocation
\* responded.
C9_Witness ==
    /\ tool = AskTool
    /\ KBSearchWithoutHits
    /\ KBSearchLog[1].resp.status = "nonarray"
    /\ phase = "Respond"

\* C10: the fetches of one KB searchAndFetch go out one at a time in the
\* order of the search result: none before the search is answered, at most
\* one outstanding, the j-th fetch for the j-th hit, and every fetch but the
\* last issued already answered (successfully or not).
C10_SequentialFetches ==
    tool = AskTool =>
        /\ Cardinality(OutstandingOf(requests, "kb", "fetch")) <= 1
        /\ KBFetchLog # <<>> => KBSearchLog[1].resp.status = "ok"
        /\ \A j \in DOMAIN KBFetchLog :
              /\ j <= Len(KBSearchLog[1].resp.items)
              /\ KBFetchLog[j].id = KBSearchLog[1].resp.items[j]
              /\ j < Len(KBFetchLog) => KBFetchLog[j].resp.status # "pending"

\* The fetch of the second hit outstanding after the fetch of the first
\* hit failed.
C10_Witness ==
    /\ tool = AskTool
    /\ Len(KBFetchLog) = 2
    /\ KBFetchLog[1].resp.status = "fail"
    /\ KBFetchLog[2].resp.status = "pending"

-----------------------------------------------------------------------------
(* Dispatch order and overlap of the tasks *)

IsGitHubCode(r) == r.src = "github" /\ r.op = "code"
IsGitHubRepos(r) == r.src = "github" /\ r.op = "repos"

\* The requests of the log from position `from` on are those of the code
\* host task, code search first, both unanswered.
GitHubIssuedAt(log, from) ==
    /\ Len(log) = from + 1
    /\ IsGitHubCode(log[from]) /\ log[from].resp = Pending
    /\ IsGitHubRepos(log[from + 1]) /\ log[from + 1].resp = Pending

\* The state the dispatch leaves: the KB search and the support search,
\* issued in this order, both unanswered, followed by the two code-host
\* searches when that task is started.
AllIssuedTogether(log) ==
    /\ Len(log) >= 2
    /\ IsKBSearch(log[1]) /\ log[1].resp = Pending
    /\ IsSupportSearch(log[2]) /\ log[2].resp = Pending
    /\ IF "github" \in Range(buildPromises(args, GITHUB_TOKEN))
       THEN GitHubIssuedAt(log, 3)
       ELSE Len(log) = 2

\* C11: ask_product_question starts its tasks in the order KB, support, code
\* host, without waiting for one before it starts the next: the step that
\* leaves Dispatch issues the KB search, then the support search, then the
\* code-host searches when that task is dispatched, and leaves all of them
\* outstanding together; no KB request is ever answered, and no KB fetch
\* issued, in a state where the support search has not been issued yet.
C11_TasksStartedTogetherInOrder ==
    [][tool = AskTool =>
          /\ phase = "Dispatch" /\ phase' # "Dispatch" =>
                /\ promises' \in {<<"kb", "support">>, <<"kb", "support", "github">>}
                /\ AllIssuedTogether(requests')
          /\ requests' # <<>> =>
                /\ Len(requests') >= 2
                /\ IsKBSearch(requests'[1])
                /\ IsSupportSearch(requests'[2])]_vars

\* All four requests of an invocation outstanding at the same time.
C11_Witness ==
    /\ tool = AskTool
    /\ phase = "AwaitAll"
    /\ Len(requests) = 4
    /\ OutstandingOf(requests, "kb", "search") # {}
    /\ OutstandingOf(requests, "support", "search") # {}
    /\ OutstandingOf(requests, "github", "code") # {}
    /\ OutstandingOf(requests, "github", "repos") # {}

-----------------------------------------------------------------------------
(* The code-host searchAndFetch *)

GitHubCodeLog == SelectSeq(requests, IsGitHubCode)
GitHubReposLog == SelectSeq(requests, IsGitHubRepos)

HasEntries(resp) == resp.status = "ok" /\ Len(resp.items) > 0

\* The repositories part as a function of the repository search's answer.
RepoPartOf(resp) ==
    IF HasEntries(resp)
    THEN <<"## Relevant Repositories", "">>
         \o JoinNL(Flatten([i \in DOMAIN resp.items |->
                               RepoLines(GhRepoStore(resp.items[i]))]))
    ELSE <<"No matching repositories found.">>

\* The code part as a function of the code search's answer.
CodePartOf(resp) ==
    IF HasEntries(resp)
    THEN <<"## Code Matches", "">>
         \o JoinNL(Flatten([i \in DOMAIN resp.items |->
                               CodeLines(GhCodeStore(resp.items[i]))]))
    ELSE <<"No matching code found.">>

\* C12: the code-host searchAndFetch, with a token, issues the code search
\* with limit 10 and the repository search with limit 5 together (the one
\* is in the log whenever the other is, whether answered or not), has no
\* text before both are answered, and its text is the repositories part,
\* an empty line, then the code part, each part being its heading with its
\* entries or its own "no results" line according to its own search's
\* answer alone.
C12_CodeHostTwoIndependentParts ==
    tool = AskTool =>
        /\ Len(GitHubCodeLog) = Len(GitHubReposLog)
        /\ Len(GitHubCodeLog) <= 1
        /\ \A i \in DOMAIN requests :
              /\ IsGitHubCode(requests[i]) =>
                    /\ requests[i].page = Some(10)
                    /\ i < Len(requests) /\ IsGitHubRepos(requests[i + 1])
              /\ IsGitHubRepos(requests[i]) => requests[i].page = Some(5)
        /\ gh.pc = "wait" => gh.value = Undefined /\ OutstandingFrom("github") # {}
        /\ gh.pc = "resolved" =>
              /\ isGitHubConfigured(GITHUB_TOKEN)
              /\ Len(GitHubCodeLog) = 1
              /\ OutstandingFrom("github") = {}
              /\ gh.value = RepoPartOf(GitHubReposLog[1].resp) \o <<"">>
                            \o CodePartOf(GitHubCodeLog[1].resp)

\* The repository search found a repository and the code search failed: the
\* text has the repositories heading and the "no code" line.
C12_Witness ==
    /\ tool = AskTool
    /\ gh.pc = "resolved"
    /\ Len(GitHubCodeLog) = 1
    /\ HasEntries(GitHubReposLog[1].resp)
    /\ GitHubCodeLog[1].resp.status = "fail"
    /\ gh.value[1] = "## Relevant Repositories"
    /\ gh.value[Len(gh.value)] = "No matching code found."

-----------------------------------------------------------------------------
(* The code host without a token *)

NotConfiguredSentences == {GitHubToolNotConfigured[1], GitHubNotConfigured[1]}

SaysNotConfigured(text) == \E i \in DOMAIN text : text[i] \in NotConfiguredSentences

\* C13: with no code-host token, no request to the code host is ever in the
\* log, whatever the tool and its arguments; the code-host searchAndFetch
\* resolves at once to its "not configured" sentence without a request; each
\* of the four code-host tools goes from Dispatch straight to a response
\* that is the "not configured" sentence; and every response of
\* ask_product_question, the inclusion flag true or not, holds the sentence.
C13_NoTokenNoCodeHostRequest ==
    GITHUB_TOKEN = "" =>
        /\ \A i \in DOMAIN requests : requests[i].src # "github"
        /\ GhStart(GITHUB_TOKEN, requests).reqs = requests
        /\ GhStart(GITHUB_TOKEN, requests).task.pc = "resolved"
        /\ SaysNotConfigured(GhStart(GITHUB_TOKEN, requests).task.value)
        /\ tool \in GitHubTools =>
              /\ phase \in {"Dispatch", "Respond"}
              /\ phase = "Respond" => response = GitHubToolNotConfigured
        /\ tool = AskTool /\ phase = "Respond" => SaysNotConfigured(response)

\* ask_product_question answered with the inclusion flag true and no token.
C13_Witness ==
    /\ GITHUB_TOKEN = ""
    /\ tool = AskTool
    /\ args.include_github = Some(TRUE)
    /\ phase = "Respond"
    /\ SaysNotConfigured(response)
    /\ Len(requests) >= 2

-----------------------------------------------------------------------------
(* The support article fetch *)

\* The positions of the URL at which "/articles/" is followed by a digit.
NumericArticleSegments(url) ==
    {i \in DOMAIN url : /\ i >= 3
                        /\ url[i - 1].digits = "" /\ url[i - 1].rest = "articles"
                        /\ url[i].digits # ""}

\* C14: get_support_article on a URL without an "/articles/<digits>" part
\* never issues a request and never faults, and answers with the message
\* that ends with the URL as given; a request is in the log only when the
\* URL has such a part, and then it is the single fetch of the article
\* whose identifier is the digits of the first such part.
C14_NoIdNoRequest ==
    tool = SupportArticleTool =>
        LET url == args.url[1]
            at == NumericArticleSegments(url)
        IN  /\ phase # "Faulted"
            /\ at = {} =>
                  /\ requests = <<>>
                  /\ phase \in {"Dispatch", "Respond"}
                  /\ phase = "Respond" =>
                        response = <<"Could not extract article ID from URL: "
                                     \o UrlString(url)>>
            /\ requests # <<>> =>
                  /\ at # {}
                  /\ Len(requests) = 1
                  /\ requests[1].src = "support" /\ requests[1].op = "article"
                  /\ \E i \in at : /\ \A j \in at : i <= j
                                   /\ requests[1].id = url[i].digits

\* The message returned for a URL whose part after "/articles/" has no
\* digit, with no request issued.
C14_Witness ==
    /\ tool = SupportArticleTool
    /\ UrlString(args.url[1])
         = "https://support.therealbrokerage.com/hc/en-us/articles/Reset-password"
    /\ phase = "Respond"
    /\ requests = <<>>
    /\ response = <<"Could not extract article ID from URL: https://support.therealbrokerage.com/hc/en-us/articles/Reset-password">>

-----------------------------------------------------------------------------
(* The support searchAndFetch *)

SupportRequests == {i \in DOMAIN requests : requests[i].src = "support"}

IsSupportTitle(line) ==
    \E id \in SupportArticleIds : line = "# " \o ZendeskStore(id).title

IsSupportSource(line) ==
    \E id \in SupportArticleIds : line = "**Source:** " \o ZendeskStore(id).html_url

IsRule(line) == line = "---"

\* C15: one support searchAndFetch has exactly one upstream request from
\* its start to its end, whatever the search answers (no fetch per hit);
\* its text for n >= 1 hits has n blocks in the order of the hits, n - 1
\* separators between them, each block led by its hit's title and source;
\* its text for no hit is the fixed sentence.
C15_OneSupportRequest ==
    tool = AskTool /\ phase # "Dispatch" =>
        /\ Cardinality(SupportRequests) = 1
        /\ Len(SupportLog) = 1
        /\ sup.pc = "resolved" <=> SupportLog[1].resp.status # "pending"
        /\ sup.pc = "resolved" /\ SupportLog[1].resp.status = "ok" =>
              LET hits == SupportLog[1].resp.items
              IN  IF Len(hits) = 0
                  THEN sup.value = <<"No support articles found for this query.">>
                  ELSE /\ SelectSeq(sup.value, IsSupportTitle)
                            = [i \in DOMAIN hits |-> "# " \o ZendeskStore(hits[i]).title]
                       /\ SelectSeq(sup.value, IsSupportSource)
                            = [i \in DOMAIN hits |->
                                  "**Source:** " \o ZendeskStore(hits[i]).html_url]
                       /\ Len(SelectSeq(sup.value, IsRule)) = Len(hits) - 1

\* Two hits, the second article of the store first: two blocks in the
\* order of the hits after a single request.
C15_Witness ==
    /\ tool = AskTool
    /\ sup.pc = "resolved"
    /\ Cardinality(SupportRequests) = 1
    /\ SupportLog[1].resp.items = <<"1002", "1001">>
    /\ SelectSeq(sup.value, IsSupportTitle)
         = <<"# Commission splits", "# Reset your password">>

-----------------------------------------------------------------------------
(* No deadline *)

\* C16: when no upstream call hangs, every invocation eventually returns
\* its response (or, the case of C3, faults on a malformed hit of the KB
\* search); and a response is never composed or returned while a call the
\* invocation issued is unanswered, so an invocation with a call that
\* never completes never responds, whatever its other tasks have done.
C16_RespondsIffAllCallsComplete ==
    /\ <>(phase = "Respond" \/ (phase = "Faulted" /\ HasNullHit))
    /\ [](Outstanding(requests) # {} =>
             /\ phase \notin {"Merge", "Respond"}
             /\ response = Undefined)

\* The response of an invocation whose six calls were all answered, the
\* code search and one fetch with a failure.
C16_Witness ==
    /\ tool = AskTool
    /\ phase = "Respond"
    /\ Len(requests) = 6
    /\ Outstanding(requests) = {}
    /\ FailedRequests("github") # {}
    /\ FailedRequests("kb") # {}

-----------------------------------------------------------------------------
(* Invocations share no state *)

\* The locals of the first invocation.
own == <<tool, args, phase, kb, sup, gh, promises, settled, requests,
         content, response>>

\* The code-host text as a function of the code host's answers alone.
GitHubTextOf(codeLog, reposLog) ==
    IF Len(codeLog) = 0
    THEN <<"GitHub search is not configured (GITHUB_TOKEN not set). Skipping code search.">>
    ELSE RepoPartOf(reposLog[1].resp) \o <<"">> \o CodePartOf(codeLog[1].resp)

\* The response of an invocation as a function of the answers its own
\* requests received: what it returns when it runs alone.
AloneResponse(log) ==
    <<"# YouTrack Knowledge Base Results", "">>
    \o KBTextOf(SelectSeq(log, IsKBSearch), SelectSeq(log, IsKBFetch))
    \o <<"", "---", "", "# Support Site Results", "">>
    \o SupportTextOf(SelectSeq(log, IsSupportSearch))
    \o <<"", "---", "", "# GitHub Code Search Results", "">>
    \o GitHubTextOf(SelectSeq(log, IsGitHubCode), SelectSeq(log, IsGitHubRepos))

\* C17: no step of any invocation changes the configuration; a step of one
\* invocation changes nothing of the other; and whatever the interleaving
\* of two invocations, the response of each is the response determined by
\* the answers to its own requests, as when it runs alone.
C17_InvocationsIsolated ==
    [][/\ config' = config
       /\ other' # other => own' = own
       /\ own' # own => other' = other
       /\ phase' = "Respond" => response' = AloneResponse(requests')
       /\ other'.phase = "Respond" =>
             other'.response = AloneResponse(other'.requests)]_vars

\* The first invocation has responded, with the article it fetched, while
\* the second, answered differently by the KB, still waits for its support
\* search.
C17_Witness ==
    /\ phase = "Respond"
    /\ Len(requests) = 3
    /\ FetchedOK(requests[3])
    /\ response = AloneResponse(requests)
    /\ other.phase = "AwaitAll"
    /\ other.kb.pc = "resolved"
    /\ other.kb.value # kb.value
    /\ OutstandingOf(other.requests, "support", "search") # {}

-----------------------------------------------------------------------------
(* The HTML normalizer *)

\* The places of the lines that start a run of equal adjacent lines.
RunHeads(lines) == {i \in DOMAIN lines : i = 1 \/ lines[i] # lines[i - 1]}

\* result holds the lines at the places of `keep`, in their order.
HoldsInOrder(result, lines, keep) ==
    /\ Len(result) = Cardinality(keep)
    /\ \A i \in DOMAIN result :
          \E j \in keep : /\ Cardinality({k \in keep : k < j}) = i - 1
                          /\ result[i] = lines[j]

\* No three newlines in a row: no two empty lines in a row.
NoBlankRun(text) ==
    \A i \in 1..(Len(text) - 1) : ~(text[i] = "" /\ text[i + 1] = "")

\* Nothing to trim: the text is '' or starts and ends with a line that is
\* not empty.
Trimmed(text) ==
    text = <<"">> \/ (Len(text) > 0 /\ text[1] # "" /\ text[Len(text)] # "")

\* C18: for every body, the lines kept by the deduplication of htmlToMarkdown
\* are the first lines of the runs of equal adjacent lines, in their order:
\* no two adjacent kept lines are equal and deduplicating again changes
\* nothing; the text returned has no three newlines in a row and nothing to
\* trim at its ends; a heading followed by the same paragraph twice gives
\* the heading and one paragraph line.
C18_DedupeAdjacentLines ==
    tool = "htmlToMarkdown" =>
        LET lines == EmitLines(args.html)
            result == Dedupe(<<>>, lines)
        IN  /\ HoldsInOrder(result, lines, RunHeads(lines))
            /\ \A i \in 1..(Len(result) - 1) : result[i] # result[i + 1]
            /\ Dedupe(<<>>, result) = result
            /\ phase = "Respond" =>
                  /\ NoBlankRun(response)
                  /\ Trimmed(response)
                  /\ args.html = <<[tag |-> "h2", text |-> <<"A">>],
                                   [tag |-> "p", text |-> <<"B">>],
                                   [tag |-> "p", text |-> <<"B">>]>>
                        => response = <<"## A", "B">>

\* A paragraph whose text holds three newlines in a row, twice, after a
\* heading: one paragraph is kept and its blank lines are cut to one.
C18_Witness ==
    /\ tool = "htmlToMarkdown"
    /\ phase = "Respond"
    /\ args.html = <<[tag |-> "h2", text |-> <<"A">>],
                     [tag |-> "p", text |-> <<"A", "", "", "B">>],
                     [tag |-> "p", text |-> <<"A", "", "", "B">>]>>
    /\ response = <<"## A", "A", "", "B">>

-----------------------------------------------------------------------------
(* The KB base URL *)

\* The URL up to its last character that is no slash.
WithoutTrailingSlashes(url) ==
    LET last == CHOOSE k \in 0..Len(url) :
                    /\ k = 0 \/ url[k] # "/"
                    /\ \A j \in (k + 1)..Len(url) : url[j] = "/"
    IN  SubSeq(url, 1, last)

HasApiEnding(url) ==
    /\ Len(url) >= 4
    /\ url[Len(url) - 3] = "/" /\ url[Len(url) - 2] = "a"
    /\ url[Len(url) - 1] = "p" /\ url[Len(url)] = "i"

\* C19: for every base URL, getBaseUrl returns a URL that ends with "/api"
\* and not with a slash: the base URL without its trailing slashes when that
\* already ends with "/api", else the same with "/api" added once; and
\* getBaseUrl applied to what it returned returns it unchanged.
C19_BaseUrlNormalized ==
    tool = "getBaseUrl" /\ phase = "Respond" =>
        LET stem == WithoutTrailingSlashes(YOUTRACK_BASE_URL)
        IN  /\ HasApiEnding(response)
            /\ response[Len(response)] # "/"
            /\ response = IF HasApiEnding(stem) THEN stem
                          ELSE stem \o <<"/", "a", "p", "i">>
            /\ getBaseUrl(response) = response

\* A base URL that ends with "/api/": returned without the slash and
\* without a second "/api".
C19_Witness ==
    /\ tool = "getBaseUrl"
    /\ phase = "Respond"
    /\ YOUTRACK_BASE_URL = <<Host, "/", "a", "p", "i", "/">>
    /\ response = <<Host, "/", "a", "p", "i">>

-----------------------------------------------------------------------------
(* Round trips of the KB searchAndFetch *)

\* The hits of the KB search (none when it failed or gave no array).
KBHits == IF KBSearchLog[1].resp.status = "ok" THEN KBSearchLog[1].resp.items ELSE <<>>

\* C20: a KB searchAndFetch with limit `max_kb_articles ?? 5` that has
\* returned made exactly one search request and one fetch request per hit
\* of the search, 1 + hits requests in all, and never more than limit + 1.
C20_AtMostLimitPlusOneRoundTrips ==
    tool = AskTool /\ kb.pc = "resolved" =>
        /\ Len(KBSearchLog) = 1
        /\ Len(KBFetchLog) = Len(KBHits)
        /\ Len(KBSearchLog) + Len(KBFetchLog) = 1 + Len(KBHits)
        /\ Len(KBSearchLog) + Len(KBFetchLog) <= kbLimit(args) + 1

-----------------------------------------------------------------------------
(* Failed fetches of the KB searchAndFetch *)

FetchSucceeded(r) == r.resp.status = "ok"
FetchFailed(r) == r.resp.status = "fail"

\* The formatted blocks of the fetches answered with an article, in the
\* order the fetches were issued.
FetchedBlocks ==
    LET fetched == SelectSeq(KBFetchLog, FetchSucceeded)
    IN  [j \in DOMAIN fetched |-> formatArticle(getKBArticle(fetched[j].resp)[1])]

\* C21: in a KB searchAndFetch whose search gave n >= 1 hits, a fetch that
\* fails is skipped and the loop goes on: once the fetch of a hit is
\* answered, failed or not, the fetch of the next hit has been issued; the
\* blocks collected are those of exactly the fetches that succeeded, in
\* search-result order; and the returned text is these blocks joined by the
\* separator, n - k blocks when k of the n fetches failed.
C21_FailedFetchSkipped ==
    (tool = AskTool /\ Len(KBSearchLog) = 1 /\ Len(KBHits) >= 1) =>
        /\ \A j \in DOMAIN KBFetchLog :
              (/\ KBFetchLog[j].resp.status # "pending"
               /\ j < Len(KBHits)
               /\ KBHits[j + 1] # NullHit) => Len(KBFetchLog) > j
        /\ kb.results = FetchedBlocks
        /\ kb.pc = "resolved" =>
              /\ Len(KBFetchLog) = Len(KBHits)
              /\ \A j \in DOMAIN KBFetchLog : KBFetchLog[j].id = KBHits[j]
              /\ kb.value = JoinSeparator(FetchedBlocks)
              /\ Len(kb.results)
                   = Len(KBHits) - Len(SelectSeq(KBFetchLog, FetchFailed))

\* Two hits, the fetch of the first failed and the fetch of the second
\* succeeded: the invocation responded with the one block of the second.
C21_Witness ==
    /\ tool = AskTool
    /\ phase = "Respond"
    /\ Len(KBSearchLog) = 1
    /\ Len(KBHits) = 2
    /\ Len(KBFetchLog) = 2
    /\ FetchFailed(KBFetchLog[1])
    /\ FetchSucceeded(KBFetchLog[2])
    /\ kb.value = formatArticle(KBStore(KBHits[2]))

====
